---- MODULE Spec2Model ----
(***************************************************************************)
(* Model of the roaring bitmap of src/src/lib.rs: a set of u32 values kept *)
(* as a sorted vector of 16-bit chunk keys and a parallel vector of        *)
(* containers, each container a sorted Vec<u16> (Sparse) or a BitSet       *)
(* (Dense).  Vector positions are 0-based as in the source; a TLA+         *)
(* sequence s holds position i at s[i + 1].                                *)
(***************************************************************************)
EXTENDS Integers, Sequences, FiniteSets, TLC

(* Chunk keys 0..MaxKey and offsets 0..MaxOffset are the ones the calls use; *)
(* a run makes at most MaxCalls calls.                                       *)
MaxKey == 1
MaxOffset == 3
MaxCalls == 5

(* The splitter is applied to the values whose key and offset lie within   *)
(* SplitSpread of the ends and of the middle of their ranges.              *)
SplitSpread == 2

(* lib.rs:13 sets 4096.  The threshold is scaled down so that a chunk can   *)
(* reach it with the offsets 0..MaxOffset; every comparison against it is   *)
(* kept as in the source.                                                   *)
SPARSE_CHUNK_SIZE_LIMIT == 3

(* 1 << 16 of lib.rs:53 *)
U16 == 65536

Keys == 0..MaxKey
Offsets == 0..MaxOffset
Values == {k * U16 + o : k \in Keys, o \in Offsets}

(* ---------------- Vec and BitSet primitives ---------------- *)

(* slice::binary_search on an ascending, duplicate-free slice: Ok(i) with  *)
(* s[i] = x, or Err(i) with i the position that keeps the slice ascending. *)
binary_search(s, x) ==
  IF \E p \in 1..Len(s) : s[p] = x
  THEN [ok |-> TRUE, idx |-> (CHOOSE p \in 1..Len(s) : s[p] = x) - 1]
  ELSE [ok |-> FALSE, idx |-> Cardinality({p \in 1..Len(s) : s[p] < x})]

(* Vec::push in place of Vec::insert: the element goes to the end. *)
vec_push(s, i, x) == Append(s, x)

(* Vec::insert(i, x): shifts the elements at i.. one place right. *)
vec_insert(s, i, x) ==
  [p \in 1..(Len(s) + 1) |->
     IF p < i + 1 THEN s[p] ELSE IF p = i + 1 THEN x ELSE s[p - 1]]

(* Vec::remove(i): shifts the elements after i one place left. *)
vec_remove(s, i) ==
  [p \in 1..(Len(s) - 1) |-> IF p < i + 1 THEN s[p] ELSE s[p + 1]]

(* BitSet::iter: the members in ascending order. *)
RECURSIVE bitset_iter(_)
bitset_iter(S) ==
  IF S = {} THEN <<>>
  ELSE LET m == CHOOSE x \in S : \A y \in S : x <= y
       IN <<m>> \o bitset_iter(S \ {m})

(* ---------------- Container ---------------- *)

Dense(bitset) == [tag |-> "Dense", vec |-> <<>>, bitset |-> bitset]
Sparse(vec) == [tag |-> "Sparse", vec |-> vec, bitset |-> {}]

from_sparse_chunk(from) == Dense({from[p] : p \in 1..Len(from)})

(* from_dense_chunk with the iteration started one member late. *)
from_dense_chunk_skip_first(from) ==
  IF from = {} THEN Sparse(<<>>) ELSE Sparse(Tail(bitset_iter(from)))

from_dense_chunk(from) == Sparse(bitset_iter(from))

container_len(c) ==
  IF c.tag = "Dense" THEN Cardinality(c.bitset) ELSE Len(c.vec)

container_contains(c, value) ==
  IF c.tag = "Dense" THEN value \in c.bitset
  ELSE binary_search(c.vec, value).ok

(* ---------------- key/offset splitter ---------------- *)

(* key_val_pair with the shift of line 53 written as 8. *)
key_val_pair_shift8(value) == <<(value \div 256) % U16, value % U16>>

key_val_pair(value) == <<(value \div U16) % U16, value % U16>>

(* ---------------- RoaringBitMap ---------------- *)

new == [keys |-> <<>>, containers |-> <<>>]

RECURSIVE SumLen(_)
SumLen(cs) ==
  IF cs = <<>> THEN 0 ELSE container_len(Head(cs)) + SumLen(Tail(cs))

len(bm) == SumLen(bm.containers)

is_empty(bm) == bm.keys = <<>>

(* clear() without line 88: the containers are kept. *)
clear_keys_only(bm) == [keys |-> <<>>, containers |-> bm.containers]

clear(bm) == [keys |-> <<>>, containers |-> <<>>]

contains(bm, value) ==
  LET kv == key_val_pair(value)
      ks == binary_search(bm.keys, kv[1])
  IN IF ks.ok THEN container_contains(bm.containers[ks.idx + 1], kv[2])
     ELSE FALSE

(* The result of a call: the bitmap it leaves, the boolean it returns and  *)
(* whether it panicked on an out-of-range index (ret is then meaningless). *)
Outcome(ks, cs, r, p) ==
  [keys |-> ks, containers |-> cs, ret |-> r, panic |-> p]

(* lib.rs:128-130: self.containers[i] = c *)
insert_replace(ks, cs, nc, r) ==
  IF nc.some
  THEN IF nc.i < Len(cs)
       THEN Outcome(ks, [cs EXCEPT ![nc.i + 1] = nc.c], r, FALSE)
       ELSE Outcome(ks, cs, r, TRUE)
  ELSE Outcome(ks, cs, r, FALSE)

None == [some |-> FALSE, i |-> 0, c |-> Sparse(<<>>)]
Some(i, c) == [some |-> TRUE, i |-> i, c |-> c]

insert(bm, value) ==
  LET kv == key_val_pair(value)
      key == kv[1]
      val == kv[2]
      ks == binary_search(bm.keys, key)
  IN IF ks.ok
     THEN LET i == ks.idx
              c == bm.containers[i + 1]
          IN IF c.tag = "Dense"
             THEN insert_replace(bm.keys,
                    [bm.containers EXCEPT ![i + 1] = Dense(c.bitset \cup {val})],
                    None, val \notin c.bitset)
             ELSE LET vs == binary_search(c.vec, val)
                  IN IF vs.ok
                     THEN insert_replace(bm.keys, bm.containers, None, FALSE)
                     ELSE (* Err(i): this i shadows the key position *)
                          LET i2 == vs.idx
                              vec == vec_insert(c.vec, i2, val)
                              cs == [bm.containers EXCEPT ![i + 1] = Sparse(vec)]
                              nc == IF Len(vec) = SPARSE_CHUNK_SIZE_LIMIT
                                    THEN Some(i2, from_sparse_chunk(vec))
                                    ELSE None
                          IN insert_replace(bm.keys, cs, nc, TRUE)
     ELSE LET i == ks.idx
          IN insert_replace(vec_insert(bm.keys, i, key),
                            vec_insert(bm.containers, i, Sparse(<<val>>)),
                            None, TRUE)

(* remove() without lines 163-165: the pending replacement is dropped. *)
remove_apply_no_replace(ks, cs, nc, to_remove, r) ==
  IF to_remove.some
  THEN IF to_remove.i < Len(ks) /\ to_remove.i < Len(cs)
       THEN Outcome(vec_remove(ks, to_remove.i),
                    vec_remove(cs, to_remove.i), r, FALSE)
       ELSE Outcome(ks, cs, r, TRUE)
  ELSE Outcome(ks, cs, r, FALSE)

(* lib.rs:163-169: the pending replacement, then the pending pair deletion *)
remove_apply(ks, cs, nc, to_remove, r) ==
  LET p1 == nc.some /\ ~(nc.i < Len(cs))
      cs1 == IF nc.some /\ ~p1 THEN [cs EXCEPT ![nc.i + 1] = nc.c] ELSE cs
  IN IF p1 THEN Outcome(ks, cs, r, TRUE)
     ELSE IF to_remove.some
          THEN IF to_remove.i < Len(ks) /\ to_remove.i < Len(cs1)
               THEN Outcome(vec_remove(ks, to_remove.i),
                            vec_remove(cs1, to_remove.i), r, FALSE)
               ELSE Outcome(ks, cs1, r, TRUE)
          ELSE Outcome(ks, cs1, r, FALSE)

remove(bm, value) ==
  LET kv == key_val_pair(value)
      key == kv[1]
      val == kv[2]
      ks == binary_search(bm.keys, key)
  IN IF ks.ok
     THEN LET i == ks.idx
              c == bm.containers[i + 1]
          IN IF c.tag = "Dense"
             THEN LET exists == val \in c.bitset
                      bitset == c.bitset \ {val}
                      cs == [bm.containers EXCEPT ![i + 1] = Dense(bitset)]
                      nc == IF Cardinality(bitset) < SPARSE_CHUNK_SIZE_LIMIT
                            THEN Some(i, from_dense_chunk(bitset))
                            ELSE None
                  IN remove_apply(bm.keys, cs, nc, None, exists)
             ELSE LET vs == binary_search(c.vec, val)
                  IN IF vs.ok
                     THEN (* Ok(i): this i shadows the key position *)
                          LET i2 == vs.idx
                              vec == vec_remove(c.vec, i2)
                              cs == [bm.containers EXCEPT ![i + 1] = Sparse(vec)]
                              tr == IF vec = <<>> THEN Some(i2, Sparse(<<>>))
                                    ELSE None
                          IN remove_apply(bm.keys, cs, None, tr, TRUE)
                     ELSE remove_apply(bm.keys, bm.containers, None, None, FALSE)
     ELSE remove_apply(bm.keys, bm.containers, None, None, FALSE)

(* ---------------- the state machine ---------------- *)

VARIABLES
  keys,        \* RoaringBitMap.keys
  containers,  \* RoaringBitMap.containers
  panicked,    \* a call has panicked; the bitmap is used no further
  refset,      \* the reference set: values inserted and not removed since
  last,        \* the last call: its name, argument, result and pre-state
  ncalls,      \* the number of calls made so far
  split        \* a call of key_val_pair: its argument and, once done, its result

vars == <<keys, containers, panicked, refset, last, ncalls, split>>

bitmap == [keys |-> keys, containers |-> containers]

Call(op, value, ret) ==
  [op |-> op, value |-> value, ret |-> ret,
   keys0 |-> keys, containers0 |-> containers, refset0 |-> refset]

Init ==
  /\ keys = new.keys
  /\ containers = new.containers
  /\ panicked = FALSE
  /\ ncalls = 0
  /\ refset = {}
  /\ last = [op |-> "new", value |-> 0, ret |-> FALSE,
             keys0 |-> <<>>, containers0 |-> <<>>, refset0 |-> {}]
  /\ split = [value |-> 0, key |-> 0, offset |-> 0, done |-> FALSE]

Insert(value) ==
  /\ ~panicked
  /\ ncalls < MaxCalls
  /\ ncalls' = ncalls + 1
  /\ LET r == insert(bitmap, value)
     IN /\ keys' = r.keys
        /\ containers' = r.containers
        /\ panicked' = r.panic
        /\ last' = Call("insert", value, r.ret)
  /\ refset' = refset \cup {value}
  /\ UNCHANGED split

Remove(value) ==
  /\ ~panicked
  /\ ncalls < MaxCalls
  /\ ncalls' = ncalls + 1
  /\ LET r == remove(bitmap, value)
     IN /\ keys' = r.keys
        /\ containers' = r.containers
        /\ panicked' = r.panic
        /\ last' = Call("remove", value, r.ret)
  /\ refset' = refset \ {value}
  /\ UNCHANGED split

Clear ==
  /\ ~panicked
  /\ ncalls < MaxCalls
  /\ ncalls' = ncalls + 1
  /\ LET r == clear(bitmap)
     IN /\ keys' = r.keys
        /\ containers' = r.containers
  /\ panicked' = FALSE
  /\ refset' = {}
  /\ last' = Call("clear", 0, FALSE)
  /\ UNCHANGED split

Next ==
  \/ \E value \in Values : Insert(value)
  \/ \E value \in Values : Remove(value)
  \/ Clear

Spec == Init /\ [][Next]_vars

(* ---------------- the splitter on its own ---------------- *)

(* Keys and offsets near 0, near the middle and near the top of the range  *)
(* the checker's integers can hold: values up to 2^31 - 1.                 *)
SplitKeys ==
  (0..SplitSpread)
    \cup ((U16 \div 4 - SplitSpread)..(U16 \div 4 + SplitSpread))
    \cup ((U16 \div 2 - 1 - SplitSpread)..(U16 \div 2 - 1))

SplitOffsets ==
  (0..SplitSpread)
    \cup ((U16 \div 2 - SplitSpread)..(U16 \div 2 + SplitSpread))
    \cup ((U16 - 1 - SplitSpread)..(U16 - 1))

SplitInputs == {k * U16 + o : k \in SplitKeys, o \in SplitOffsets}

SplitInit ==
  /\ keys = new.keys
  /\ containers = new.containers
  /\ panicked = FALSE
  /\ ncalls = 0
  /\ refset = {}
  /\ last = [op |-> "new", value |-> 0, ret |-> FALSE,
             keys0 |-> <<>>, containers0 |-> <<>>, refset0 |-> {}]
  /\ split \in {[value |-> v, key |-> 0, offset |-> 0, done |-> FALSE] :
                  v \in SplitInputs}

Split ==
  /\ ~split.done
  /\ LET kv == key_val_pair(split.value)
     IN split' = [value |-> split.value, key |-> kv[1], offset |-> kv[2],
                  done |-> TRUE]
  /\ UNCHANGED <<keys, containers, panicked, refset, last, ncalls>>

SplitNext == Split

SplitSpec == SplitInit /\ [][SplitNext]_vars

(* ---------------- well-formedness of the model ---------------- *)

TypeOK ==
  /\ keys \in Seq(Keys)
  /\ Len(containers) = Len(keys)
  /\ panicked \in BOOLEAN
  /\ refset \subseteq Values
  /\ ncalls \in 0..MaxCalls

Ascending(s) == \A p, q \in 1..Len(s) : p < q => s[p] < s[q]

(* What binary_search relies on: the slices it searches are ascending. *)
SearchedSlicesAscending ==
  /\ Ascending(keys)
  /\ \A p \in 1..Len(containers) : Ascending(containers[p].vec)

(* ---------------- the claims ---------------- *)

(* The bitmap the last call started from. *)
before == [keys |-> last.keys0, containers |-> last.containers0]

(* The last call was op and it returned. *)
Returned(op) == last.op = op /\ ~panicked

KeySet(ks) == {ks[p] : p \in 1..Len(ks)}

(* The container paired with chunk key k, for k in bm.keys. *)
ContainerOf(bm, k) == bm.containers[binary_search(bm.keys, k).idx + 1]

(* C1: after any sequence of insert and remove calls, contains(v) answers, *)
(* for every value v, whether v is in the reference set.                   *)
C1_ContainsMatchesReference ==
  ~panicked => \A v \in Values : contains(bitmap, v) = (v \in refset)

(* C2: every insert and every remove call completes normally; none indexes *)
(* the key or container vector outside its length.                         *)
C2_EveryCallReturns == ~panicked

(* C3: insert(v) returns true iff v was not in the set just before the     *)
(* call.                                                                   *)
C3_InsertReturnsNewlyAdded ==
  Returned("insert") => (last.ret = (last.value \notin last.refset0))

(* C4: remove(v) returns true iff v was in the set just before the call,   *)
(* and contains(v) is false once it has returned.                          *)
C4_RemoveReturnsWasPresent ==
  Returned("remove") =>
    /\ last.ret = (last.value \in last.refset0)
    /\ ~contains(bitmap, last.value)

(* C5: len() is the number of values present; it grows by 1 on an insert   *)
(* that returns true, shrinks by 1 on a remove that returns true and is    *)
(* otherwise left alone by insert and remove.                              *)
C5_LenIsCardinality ==
  ~panicked =>
    /\ len(bitmap) = Cardinality(refset)
    /\ Returned("insert") =>
         len(bitmap) = len(before) + (IF last.ret THEN 1 ELSE 0)
    /\ Returned("remove") =>
         len(bitmap) = len(before) - (IF last.ret THEN 1 ELSE 0)

(* C6: remove(v) of a value that is not in the set (never inserted, or     *)
(* removed since) returns false and leaves len() unchanged.                *)
C6_RemoveOfNonMember ==
  (Returned("remove") /\ last.value \notin last.refset0) =>
    /\ last.ret = FALSE
    /\ len(bitmap) = len(before)

(* C7: is_empty() is true iff len() is 0, iff no value is contained.       *)
C7_IsEmptyIffLenZero ==
  ~panicked =>
    /\ is_empty(bitmap) = (len(bitmap) = 0)
    /\ is_empty(bitmap) = (\A v \in Values : ~contains(bitmap, v))

(* C8: once insert(v) has been called, calling insert(v) again returns     *)
(* false and leaves len() as the first call left it.                       *)
C8_InsertTwice ==
  last.op = "insert" =>
    /\ ~panicked
    /\ LET second == insert(bitmap, last.value)
       IN /\ ~second.panic
          /\ second.ret = FALSE
          /\ len(second) = len(bitmap)

(* C9: after clear(), len() is 0, is_empty() is true, contains(v) is false *)
(* for every v, and the bitmap is the one new() constructs.                *)
C9_ClearResets ==
  last.op = "clear" =>
    /\ ~panicked
    /\ len(bitmap) = 0
    /\ is_empty(bitmap)
    /\ \A v \in Values : ~contains(bitmap, v)
    /\ bitmap = new

(* C9 witness: clear() was called on a bitmap of two chunks, one of them   *)
(* Dense.                                                                  *)
C9_Witness ==
  /\ last.op = "clear"
  /\ Len(last.keys0) = 2
  /\ \E p \in 1..Len(last.containers0) : last.containers0[p].tag = "Dense"
  /\ len(before) > SPARSE_CHUNK_SIZE_LIMIT

(* The last call was a remove that took the only offset out of the Sparse  *)
(* container of its chunk key.                                             *)
RemovedLastOffset ==
  /\ Returned("remove")
  /\ LET kv == key_val_pair(last.value)
     IN /\ kv[1] \in KeySet(last.keys0)
        /\ ContainerOf(before, kv[1]) = Sparse(<<kv[2]>>)

(* C10: when remove(v) takes the last offset out of the Sparse container   *)
(* of chunk key k, k is gone from the key sequence afterwards and every    *)
(* other key is still there with the container it had.                     *)
C10_PairDeletedAtKeyPosition ==
  RemovedLastOffset =>
    LET k == key_val_pair(last.value)[1]
    IN /\ Len(containers) = Len(keys)
       /\ KeySet(keys) = KeySet(last.keys0) \ {k}
       /\ \A k2 \in KeySet(keys) : ContainerOf(bitmap, k2) = ContainerOf(before, k2)

(* The offsets a container holds. *)
Members(c) ==
  IF c.tag = "Dense" THEN c.bitset ELSE {c.vec[p] : p \in 1..Len(c.vec)}

(* The offsets of the reference set's values that have chunk key k. *)
RefOffsets(k) ==
  {key_val_pair(v)[2] : v \in {w \in refset : key_val_pair(w)[1] = k}}

(* The last call was an insert of an absent offset into a Sparse container *)
(* that held SPARSE_CHUNK_SIZE_LIMIT - 1 offsets: the insertion that       *)
(* brings the chunk to the limit.                                          *)
InsertReachedLimit ==
  /\ last.op = "insert"
  /\ LET kv == key_val_pair(last.value)
     IN /\ kv[1] \in KeySet(last.keys0)
        /\ ContainerOf(before, kv[1]).tag = "Sparse"
        /\ Len(ContainerOf(before, kv[1]).vec) = SPARSE_CHUNK_SIZE_LIMIT - 1
        /\ kv[2] \notin Members(ContainerOf(before, kv[1]))

(* C11: insert(v) changes only the pair of v's own chunk key; when it      *)
(* brings the chunk's Sparse list to the limit, the Dense container takes  *)
(* the place of that chunk's container, and every other key keeps its      *)
(* container.                                                              *)
C11_InsertTouchesOwnChunkOnly ==
  Returned("insert") =>
    LET kv == key_val_pair(last.value)
    IN /\ Len(containers) = Len(keys)
       /\ KeySet(keys) = KeySet(last.keys0) \cup {kv[1]}
       /\ \A k2 \in KeySet(last.keys0) \ {kv[1]} :
            ContainerOf(bitmap, k2) = ContainerOf(before, k2)
       /\ InsertReachedLimit =>
            ContainerOf(bitmap, kv[1]) =
              Dense(Members(ContainerOf(before, kv[1])) \cup {kv[2]})

(* C12: the container sequence is as long as the key sequence, and the     *)
(* container at position i holds exactly the offsets of the present values *)
(* whose chunk key is the key at i.                                        *)
C12_ContainersAlignedWithKeys ==
  ~panicked =>
    /\ Len(containers) = Len(keys)
    /\ \A p \in 1..Len(keys) : Members(containers[p]) = RefOffsets(keys[p])

(* C13: after every completed insert no Sparse container holds             *)
(* SPARSE_CHUNK_SIZE_LIMIT or more offsets.                                *)
C13_SparseBelowLimit ==
  Returned("insert") =>
    \A p \in 1..Len(containers) :
      containers[p].tag = "Sparse" =>
        Len(containers[p].vec) < SPARSE_CHUNK_SIZE_LIMIT

(* C14: no container of the container sequence is empty.                   *)
C14_NoEmptyContainer ==
  ~panicked =>
    \A p \in 1..Len(containers) : container_len(containers[p]) > 0

(* The last call was a remove that returned and that found its chunk key   *)
(* paired with a Dense container.                                          *)
RemoveFromDense ==
  /\ Returned("remove")
  /\ key_val_pair(last.value)[1] \in KeySet(last.keys0)
  /\ ContainerOf(before, key_val_pair(last.value)[1]).tag = "Dense"

(* The members that remove leaves in the Dense container it found. *)
DenseAfterRemove ==
  ContainerOf(before, key_val_pair(last.value)[1]).bitset
    \ {key_val_pair(last.value)[2]}

(* ... and the removal left fewer than SPARSE_CHUNK_SIZE_LIMIT members. *)
DemotingRemove ==
  /\ RemoveFromDense
  /\ Cardinality(DenseAfterRemove) < SPARSE_CHUNK_SIZE_LIMIT

(* C15: every Dense container holds at least SPARSE_CHUNK_SIZE_LIMIT       *)
(* members; a remove that leaves a Dense container with fewer has put a    *)
(* Sparse container at the same position when it returns.                  *)
C15_DenseAtLeastLimit ==
  /\ \A p \in 1..Len(containers) :
       containers[p].tag = "Dense" =>
         Cardinality(containers[p].bitset) >= SPARSE_CHUNK_SIZE_LIMIT
  /\ DemotingRemove =>
       /\ keys = last.keys0
       /\ Len(containers) = Len(last.containers0)
       /\ ContainerOf(bitmap, key_val_pair(last.value)[1]).tag = "Sparse"

(* C15 witness: a remove took a member out of a Dense container that sat   *)
(* at the second position and left it below the limit.                     *)
C15_Witness ==
  /\ DemotingRemove
  /\ last.ret
  /\ binary_search(last.keys0, key_val_pair(last.value)[1]).idx = 1

(* C16: the key sequence is strictly ascending, hence duplicate-free.      *)
C16_KeysStrictlyAscending ==
  \A p, q \in 1..Len(keys) : p < q => keys[p] < keys[q]

(* C16 witness: an insert put a new key in front of a larger one.          *)
C16_Witness ==
  /\ Returned("insert")
  /\ last.keys0 = <<1>>
  /\ keys = <<0, 1>>

(* C18: the remove that drops a Dense chunk below the limit leaves, at the *)
(* chunk's position, a Sparse container whose list is ascending and        *)
(* duplicate-free; contains() answers for every value of the chunk as the  *)
(* Dense set less the removed offset would, and no other chunk changes.    *)
C18_DemotionKeepsMembership ==
  DemotingRemove =>
    LET k == key_val_pair(last.value)[1]
        c == ContainerOf(bitmap, k)
    IN /\ keys = last.keys0
       /\ c.tag = "Sparse"
       /\ \A p, q \in 1..Len(c.vec) : p < q => c.vec[p] < c.vec[q]
       /\ Len(c.vec) = Cardinality(DenseAfterRemove)
       /\ \A o \in Offsets : contains(bitmap, k * U16 + o) = (o \in DenseAfterRemove)
       /\ \A k2 \in KeySet(keys) \ {k} :
            ContainerOf(bitmap, k2) = ContainerOf(before, k2)

(* C18 witness: a remove took a member out of a Dense container and left   *)
(* it with SPARSE_CHUNK_SIZE_LIMIT - 1 members, which it still contains.   *)
C18_Witness ==
  /\ DemotingRemove
  /\ last.ret
  /\ Cardinality(DenseAfterRemove) = SPARSE_CHUNK_SIZE_LIMIT - 1
  /\ \E o \in DenseAfterRemove :
       contains(bitmap, key_val_pair(last.value)[1] * U16 + o)

(* C17: the insertion that brings a chunk's Sparse list to the limit, in   *)
(* whatever order the offsets came and whatever other chunks exist,        *)
(* returns with that chunk Dense, and contains() answers for every value   *)
(* of the chunk as before the call, the inserted value now being present.  *)
C17_PromotionKeepsMembership ==
  InsertReachedLimit =>
    LET kv == key_val_pair(last.value)
    IN /\ ~panicked
       /\ ContainerOf(bitmap, kv[1]).tag = "Dense"
       /\ \A o \in Offsets :
            contains(bitmap, kv[1] * U16 + o) =
              (o = kv[2] \/ contains(before, kv[1] * U16 + o))

(* value >> n and the low n bits of value, bit by bit. *)
RECURSIVE ShiftRight(_, _)
ShiftRight(value, n) ==
  IF n = 0 THEN value ELSE ShiftRight(value \div 2, n - 1)

RECURSIVE LowBits(_, _)
LowBits(value, n) ==
  IF n = 0 THEN 0 ELSE (value % 2) + 2 * LowBits(value \div 2, n - 1)

(* C19: the splitter returns key = value >> 16 and offset = value &        *)
(* 0xFFFF, both within 0..65535, with value = key * 65536 + offset, so no  *)
(* other value has the same (key, offset).                                 *)
C19_SplitIsShiftAndMask ==
  split.done =>
    /\ split.key = ShiftRight(split.value, 16)
    /\ split.offset = LowBits(split.value, 16)
    /\ split.key \in 0..65535
    /\ split.offset \in 0..65535
    /\ split.value = split.key * 65536 + split.offset
    /\ \A w \in SplitInputs :
         key_val_pair(w) = <<split.key, split.offset>> => w = split.value

(* C19 witness: the splitter has been applied to a value whose key and     *)
(* offset are both non-zero and differ.                                    *)
C19_Witness ==
  /\ split.done
  /\ split.value = (U16 \div 2 - 1) * U16 + (U16 - 1)
  /\ split.key = U16 \div 2 - 1
  /\ split.offset = U16 - 1

====
